---- MODULE Spec2Model ----
(***************************************************************************)
(* Study hall management server (src/server.js): the students and          *)
(* study_halls tables of the SQLite store and the HTTP handlers that read  *)
(* and write them.  One action per handler; a handler's SQL statement is   *)
(* one atomic step of the store.  The handlers that reach the store in two *)
(* steps (the fee run reads the clock and then queues its UPDATE, the hall *)
(* deletion counts and then deletes) also have their steps as separate     *)
(* actions, with the requests in flight held in accruing and deleting.     *)
(*                                                                         *)
(* Encodings.  A calendar date 'YYYY-MM-DD' is the integer YYYYMMDD, so    *)
(* that SQLite's text comparison of two ISO dates is the integer order.    *)
(* SQL NULL in a date column is NullDate.  A JSON request value is a       *)
(* record [t, v]: t = "undefined" (member omitted), "number" (v is the     *)
(* integer, or a string that parseInt reads as v) or "text" (a string      *)
(* parseInt cannot read, such as "" or "abc").                             *)
(***************************************************************************)
EXTENDS Integers, Sequences, FiniteSets, TLC

\* ------------------------------------------------------------------ bounds
MaxStudents == 2
MaxHalls == 2
MaxInFlight == 2    \* fee runs that have read the clock and not yet run their UPDATE

\* ------------------------------------------------------------------- dates
NullDate == 0

Dates == {20240115, 20240215, 20240331}

YearOf(d) == d \div 10000
MonthOf(d) == (d \div 100) % 100
DayOf(d) == d % 100
MkDate(y, m, d) == y * 10000 + m * 100 + d

IsLeap(y) == (y % 4 = 0 /\ y % 100 # 0) \/ y % 400 = 0

DaysInMonth(y, m) ==
    IF m = 2 THEN (IF IsLeap(y) THEN 29 ELSE 28)
    ELSE IF m \in {4, 6, 9, 11} THEN 30 ELSE 31

\* SQLite computes the Julian day of Y-M-D even when D is past the end of
\* month M, so the surplus days run into the following month.
NormalizeYMD(y, m, d) ==
    IF d <= DaysInMonth(y, m) THEN MkDate(y, m, d)
    ELSE IF m = 12 THEN MkDate(y + 1, 1, d - DaysInMonth(y, m))
    ELSE MkDate(y, m + 1, d - DaysInMonth(y, m))

\* date(d, '+1 month')
PlusOneMonth(d) ==
    IF MonthOf(d) = 12 THEN NormalizeYMD(YearOf(d) + 1, 1, DayOf(d))
    ELSE NormalizeYMD(YearOf(d), MonthOf(d) + 1, DayOf(d))

\* the modifier applied with the wrong sign
MinusOneMonthWrongSign(d) == PlusOneMonth(d)

\* date(d, '-1 month')
MinusOneMonth(d) ==
    IF MonthOf(d) = 1 THEN NormalizeYMD(YearOf(d) - 1, 12, DayOf(d))
    ELSE NormalizeYMD(YearOf(d), MonthOf(d) - 1, DayOf(d))

\* ------------------------------------------------------------- JSON values
Undefined == [t |-> "undefined", v |-> 0]
Num(n) == [t |-> "number", v |-> n]
Text == [t |-> "text", v |-> 0]

\* parseInt(x): NaN unless x reads as an integer
ParseInt(x) == IF x.t = "number" THEN [nan |-> FALSE, v |-> x.v]
               ELSE [nan |-> TRUE, v |-> 0]

\* parseInt(x) === 0
ParsesToZero(x) == ~ParseInt(x).nan /\ ParseInt(x).v = 0

\* parseInt(x) || 0
ParseIntOrZero(x) == IF ParseInt(x).nan THEN 0 ELSE ParseInt(x).v

\* (parseInt(feeDue) === 0) ? 'Paid' : 'Pending'
RequestStatus(feeDue) == IF ParsesToZero(feeDue) THEN "Paid" ELSE "Pending"

\* ------------------------------------------------------------------- state
VARIABLES
    students,      \* table students: id -> row
    studentSeq,    \* AUTOINCREMENT counter of students
    halls,         \* table study_halls: id -> row
    hallSeq,       \* AUTOINCREMENT counter of study_halls
    resp,          \* the response of the last request handled
    accruing,      \* fee runs in flight: date -> number of UPDATEs queued with it
    deleting,      \* hall deletions in flight: ids counted free, DELETE queued
    departed       \* history: ids marked as left and not reactivated since

vars == <<students, studentSeq, halls, hallSeq, resp, accruing, deleting, departed>>

StudentIds == 1..MaxStudents
HallIds == 1..MaxHalls

Response(op, status, error, affected, rows) ==
    [op |-> op, status |-> status, error |-> error, affected |-> affected, rows |-> rows]

Init ==
    /\ students = << >>
    /\ studentSeq = 0
    /\ halls = << >>
    /\ hallSeq = 0
    /\ resp = Response("none", 0, "", 0, << >>)
    /\ accruing = [d \in Dates |-> 0]
    /\ deleting = {}
    /\ departed = {}

\* DELETE FROM t WHERE id = ?
DeleteRow(table, id) == [i \in DOMAIN table \ {id} |-> table[i]]

\* INSERT INTO t ... with rowid id
InsertRow(table, id, row) == [i \in DOMAIN table \cup {id} |-> IF i = id THEN row ELSE table[i]]

\* A handler that runs from request to response with no other request in
\* between leaves the requests in flight as they are.
Alone == UNCHANGED <<accruing, deleting, departed>>

\* ---------------------------------------------------------------- students
\* POST /api/students
CreateStudent(body, today) ==
    /\ studentSeq < MaxStudents
    /\ IF body.name = "" \/ body.cabin = "" \/ body.hall = "" \/ body.phone = ""
       THEN /\ resp' = Response("createStudent", 400, "ValidationError", 0, << >>)
            /\ UNCHANGED <<students, studentSeq, halls, hallSeq>>
       ELSE /\ students' = InsertRow(students, studentSeq + 1,
                   [name |-> body.name, cabin |-> body.cabin, hall |-> body.hall,
                    phone |-> body.phone,
                    fee_paid |-> ParseIntOrZero(body.feePaid),
                    fee_due |-> ParseIntOrZero(body.feeDue),
                    status |-> RequestStatus(body.feeDue),
                    join_date |-> IF body.joinDate = NullDate THEN today ELSE body.joinDate,
                    left_date |-> NullDate,
                    monthly_fee |-> ParseIntOrZero(body.monthlyFee),
                    last_fee_calculated_date |-> NullDate])
            /\ studentSeq' = studentSeq + 1
            /\ resp' = Response("createStudent", 200, "", 0, << >>)
            /\ UNCHANGED <<halls, hallSeq>>

UpdateStudentLookingUpFirst(id, body) ==
    /\ IF id \notin DOMAIN students
       THEN /\ resp' = Response("updateStudent", 404, "NotFound", 0, << >>)
            /\ UNCHANGED students
       ELSE IF \/ body.name = "" \/ body.cabin = "" \/ body.hall = "" \/ body.phone = ""
               \/ body.feePaid = Undefined \/ body.feeDue = Undefined
       THEN /\ resp' = Response("updateStudent", 400, "ValidationError", 0, << >>)
            /\ UNCHANGED students
       ELSE /\ students' = [students EXCEPT ![id] =
                   [@ EXCEPT !.name = body.name, !.cabin = body.cabin, !.hall = body.hall,
                             !.phone = body.phone,
                             !.fee_paid = ParseIntOrZero(body.feePaid),
                             !.fee_due = ParseIntOrZero(body.feeDue),
                             !.status = RequestStatus(body.feeDue),
                             !.monthly_fee = ParseIntOrZero(body.monthlyFee),
                             !.join_date = body.joinDate,
                             !.left_date = body.leftDate]]
            /\ resp' = Response("updateStudent", 200, "", 1, << >>)
    /\ UNCHANGED <<studentSeq, halls, hallSeq>>

\* PUT /api/students/:id
UpdateStudent(id, body) ==
    /\ IF \/ body.name = "" \/ body.cabin = "" \/ body.hall = "" \/ body.phone = ""
          \/ body.feePaid = Undefined \/ body.feeDue = Undefined
       THEN /\ resp' = Response("updateStudent", 400, "ValidationError", 0, << >>)
            /\ UNCHANGED students
       ELSE IF id \notin DOMAIN students
       THEN /\ resp' = Response("updateStudent", 404, "NotFound", 0, << >>)
            /\ UNCHANGED students
       ELSE /\ students' = [students EXCEPT ![id] =
                   [@ EXCEPT !.name = body.name, !.cabin = body.cabin, !.hall = body.hall,
                             !.phone = body.phone,
                             !.fee_paid = ParseIntOrZero(body.feePaid),
                             !.fee_due = ParseIntOrZero(body.feeDue),
                             !.status = RequestStatus(body.feeDue),
                             !.monthly_fee = ParseIntOrZero(body.monthlyFee),
                             !.join_date = body.joinDate,
                             !.left_date = body.leftDate]]
            /\ resp' = Response("updateStudent", 200, "", 1, << >>)
    /\ UNCHANGED <<studentSeq, halls, hallSeq>>

\* DELETE /api/students/:id
DeleteStudent(id) ==
    /\ IF id \notin DOMAIN students
       THEN /\ resp' = Response("deleteStudent", 404, "NotFound", 0, << >>)
            /\ UNCHANGED students
       ELSE /\ students' = DeleteRow(students, id)
            /\ resp' = Response("deleteStudent", 200, "", 1, << >>)
    /\ UNCHANGED <<studentSeq, halls, hallSeq>>

\* -------------------------------------------------------------------- fees
\* the run that forgets WHERE left_date IS NULL
EligibleIgnoringLeft(row, today) ==
    /\ row.monthly_fee > 0
    /\ \/ row.last_fee_calculated_date = NullDate
       \/ row.last_fee_calculated_date < MinusOneMonth(today)

\* the run that compares with <= instead of <
EligibleInclusive(row, today) ==
    /\ row.left_date = NullDate
    /\ row.monthly_fee > 0
    /\ \/ row.last_fee_calculated_date = NullDate
       \/ row.last_fee_calculated_date <= MinusOneMonth(today)

\* WHERE left_date IS NULL AND monthly_fee > 0 AND (last_fee_calculated_date
\*       IS NULL OR last_fee_calculated_date < date(?, '-1 month'))
Eligible(row, today) ==
    /\ row.left_date = NullDate
    /\ row.monthly_fee > 0
    /\ \/ row.last_fee_calculated_date = NullDate
       \/ row.last_fee_calculated_date < MinusOneMonth(today)

\* the run that charges one fee for every month since the last stamp
AccrueRowPerElapsedMonth(row, today) ==
    [row EXCEPT !.fee_due = row.fee_due + row.monthly_fee *
                    (IF row.last_fee_calculated_date = NullDate THEN 1
                     ELSE 12 * (YearOf(today) - YearOf(row.last_fee_calculated_date))
                          + MonthOf(today) - MonthOf(row.last_fee_calculated_date)),
                !.last_fee_calculated_date = today,
                !.status = "Pending"]

\* the run that leaves the status column alone
AccrueRowKeepingStatus(row, today) ==
    [row EXCEPT !.fee_due = row.fee_due + row.monthly_fee,
                !.last_fee_calculated_date = today]

\* the run that derives the status of the new balance
AccrueRowDerivingStatus(row, today) ==
    [row EXCEPT !.fee_due = row.fee_due + row.monthly_fee,
                !.last_fee_calculated_date = today,
                !.status = IF row.fee_due + row.monthly_fee = 0 THEN "Paid" ELSE "Pending"]

\* the run that does not stamp the rows it charges
AccrueRowWithoutStamp(row, today) ==
    [row EXCEPT !.fee_due = row.fee_due + row.monthly_fee,
                !.status = IF row.monthly_fee > 0 /\ row.fee_due + row.monthly_fee > 0
                           THEN "Pending" ELSE row.status]

\* SET fee_due = fee_due + monthly_fee, last_fee_calculated_date = ?,
\*     status = CASE WHEN monthly_fee > 0 AND (fee_due + monthly_fee) > 0
\*                   THEN 'Pending' ELSE status END
AccrueRow(row, today) ==
    [row EXCEPT !.fee_due = row.fee_due + row.monthly_fee,
                !.last_fee_calculated_date = today,
                !.status = IF row.monthly_fee > 0 /\ row.fee_due + row.monthly_fee > 0
                           THEN "Pending" ELSE row.status]

\* the table after the UPDATE statement
AccrualRows(table, today) ==
    [i \in DOMAIN table |->
        IF Eligible(table[i], today) THEN AccrueRow(table[i], today) ELSE table[i]]

\* this.changes of the UPDATE statement
AccrualChanges(table, today) ==
    Cardinality({i \in DOMAIN table : Eligible(table[i], today)})

\* POST /api/fees/calculate-monthly
CalculateMonthly(today) ==
    /\ students' = AccrualRows(students, today)
    /\ resp' = Response("calculateMonthly", 200, "", AccrualChanges(students, today), << >>)
    /\ UNCHANGED <<studentSeq, halls, hallSeq>>

\* the view that reports the stamp itself, not the month after it
NextFeeDateUnshifted(row) ==
    IF row.last_fee_calculated_date = NullDate THEN row.join_date
    ELSE row.last_fee_calculated_date

\* CASE WHEN last_fee_calculated_date IS NULL THEN join_date
\*      ELSE date(last_fee_calculated_date, '+1 month') END as next_fee_date
NextFeeDate(row) ==
    IF row.last_fee_calculated_date = NullDate THEN row.join_date
    ELSE PlusOneMonth(row.last_fee_calculated_date)

\* FROM students WHERE left_date IS NULL AND monthly_fee > 0
Upcoming(row) == row.left_date = NullDate /\ row.monthly_fee > 0

UpcomingRow(i) == [id |-> i, row |-> students[i], next_fee_date |-> NextFeeDate(students[i])]

\* ORDER BY next_fee_date ASC: the result sets SQLite may return.  The order
\* of rows with equal next_fee_date is not fixed by the statement.
UpcomingResults ==
    LET sel == {i \in DOMAIN students : Upcoming(students[i])}
    IN {q \in [1..Cardinality(sel) -> {UpcomingRow(i) : i \in sel}] :
          /\ \A i \in sel : \E k \in DOMAIN q : q[k].id = i
          /\ \A k \in DOMAIN q : \A l \in DOMAIN q :
                k < l => q[k].next_fee_date <= q[l].next_fee_date}

\* GET /api/upcoming-fees
UpcomingFees ==
    /\ \E q \in UpcomingResults : resp' = Response("upcomingFees", 200, "", 0, q)
    /\ UNCHANGED <<students, studentSeq, halls, hallSeq>>

\* --------------------------------------------------------------- lifecycle
\* the handler that ignores the date of the request
MarkLeftAlwaysToday(id, left_date, today) ==
    /\ IF id \notin DOMAIN students
       THEN /\ resp' = Response("markLeft", 404, "NotFound", 0, << >>)
            /\ UNCHANGED students
       ELSE /\ students' = [students EXCEPT ![id].left_date = today]
            /\ resp' = Response("markLeft", 200, "", 1, << >>)
    /\ UNCHANGED <<studentSeq, halls, hallSeq>>

\* the handler without the default, left_date = ? with the value as given
MarkLeftStoringGiven(id, left_date, today) ==
    /\ IF id \notin DOMAIN students
       THEN /\ resp' = Response("markLeft", 404, "NotFound", 0, << >>)
            /\ UNCHANGED students
       ELSE /\ students' = [students EXCEPT ![id].left_date = left_date]
            /\ resp' = Response("markLeft", 200, "", 1, << >>)
    /\ UNCHANGED <<studentSeq, halls, hallSeq>>

\* PUT /api/students/:id/leave
MarkLeft(id, left_date, today) ==
    /\ IF id \notin DOMAIN students
       THEN /\ resp' = Response("markLeft", 404, "NotFound", 0, << >>)
            /\ UNCHANGED students
       ELSE /\ students' = [students EXCEPT ![id].left_date =
                               IF left_date = NullDate THEN today ELSE left_date]
            /\ resp' = Response("markLeft", 200, "", 1, << >>)
    /\ UNCHANGED <<studentSeq, halls, hallSeq>>

\* the handler that also clears the fee stamp
ReactivateResettingStamp(id) ==
    /\ IF id \notin DOMAIN students
       THEN /\ resp' = Response("reactivate", 404, "NotFound", 0, << >>)
            /\ UNCHANGED students
       ELSE /\ students' = [students EXCEPT ![id].left_date = NullDate,
                                            ![id].last_fee_calculated_date = NullDate]
            /\ resp' = Response("reactivate", 200, "", 1, << >>)
    /\ UNCHANGED <<studentSeq, halls, hallSeq>>

\* PUT /api/students/:id/reactivate
Reactivate(id) ==
    /\ IF id \notin DOMAIN students
       THEN /\ resp' = Response("reactivate", 404, "NotFound", 0, << >>)
            /\ UNCHANGED students
       ELSE /\ students' = [students EXCEPT ![id].left_date = NullDate]
            /\ resp' = Response("reactivate", 200, "", 1, << >>)
    /\ UNCHANGED <<studentSeq, halls, hallSeq>>

\* ------------------------------------------------------------- study halls
\* name TEXT NOT NULL UNIQUE
\* a table whose name column lacks the UNIQUE constraint
NameNeverTaken(name, except) == FALSE

\* name TEXT NOT NULL UNIQUE: the INSERT or UPDATE fails when another row has
\* the name (except is the row being updated, 0 for an INSERT)
NameTaken(name, except) == \E h \in DOMAIN halls \ {except} : halls[h].name = name

\* POST /api/study-halls
CreateStudyHall(body) ==
    /\ hallSeq < MaxHalls
    /\ IF body.name = "" \/ body.capacity = 0 \/ body.location = ""
       THEN /\ resp' = Response("createStudyHall", 400, "ValidationError", 0, << >>)
            /\ UNCHANGED <<halls, hallSeq>>
       ELSE IF NameTaken(body.name, 0)
       THEN /\ resp' = Response("createStudyHall", 400, "DuplicateName", 0, << >>)
            /\ UNCHANGED <<halls, hallSeq>>
       ELSE /\ halls' = InsertRow(halls, hallSeq + 1,
                   [name |-> body.name, capacity |-> body.capacity,
                    location |-> body.location, description |-> body.description])
            /\ hallSeq' = hallSeq + 1
            /\ resp' = Response("createStudyHall", 200, "", 0, << >>)
    /\ UNCHANGED <<students, studentSeq>>

\* the handler that also renames the hall in the rows of its students
UpdateStudyHallRenamingStudents(id, body) ==
    /\ IF body.name = "" \/ body.capacity = 0 \/ body.location = ""
       THEN /\ resp' = Response("updateStudyHall", 400, "ValidationError", 0, << >>)
            /\ UNCHANGED <<halls, students>>
       ELSE IF id \notin DOMAIN halls
       THEN /\ resp' = Response("updateStudyHall", 404, "NotFound", 0, << >>)
            /\ UNCHANGED <<halls, students>>
       ELSE IF NameTaken(body.name, id)
       THEN /\ resp' = Response("updateStudyHall", 400, "DuplicateName", 0, << >>)
            /\ UNCHANGED <<halls, students>>
       ELSE /\ halls' = [halls EXCEPT ![id] =
                   [name |-> body.name, capacity |-> body.capacity,
                    location |-> body.location, description |-> body.description]]
            /\ students' = [s \in DOMAIN students |->
                   IF students[s].hall = halls[id].name
                   THEN [students[s] EXCEPT !.hall = body.name] ELSE students[s]]
            /\ resp' = Response("updateStudyHall", 200, "", 1, << >>)
    /\ UNCHANGED <<studentSeq, hallSeq>>

\* PUT /api/study-halls/:id
UpdateStudyHall(id, body) ==
    /\ IF body.name = "" \/ body.capacity = 0 \/ body.location = ""
       THEN /\ resp' = Response("updateStudyHall", 400, "ValidationError", 0, << >>)
            /\ UNCHANGED halls
       ELSE IF id \notin DOMAIN halls
       THEN /\ resp' = Response("updateStudyHall", 404, "NotFound", 0, << >>)
            /\ UNCHANGED halls
       ELSE IF NameTaken(body.name, id)
       THEN /\ resp' = Response("updateStudyHall", 400, "DuplicateName", 0, << >>)
            /\ UNCHANGED halls
       ELSE /\ halls' = [halls EXCEPT ![id] =
                   [name |-> body.name, capacity |-> body.capacity,
                    location |-> body.location, description |-> body.description]]
            /\ resp' = Response("updateStudyHall", 200, "", 1, << >>)
    /\ UNCHANGED <<students, studentSeq, hallSeq>>

\* the count that looks at active students only
HallStudentCountActive(id) ==
    IF id \notin DOMAIN halls THEN 0
    ELSE Cardinality({s \in DOMAIN students :
                        /\ students[s].hall = halls[id].name
                        /\ students[s].left_date = NullDate})

\* SELECT COUNT(*) as count FROM students
\*  WHERE hall = (SELECT name FROM study_halls WHERE id = ?)
\* The subquery is NULL for an id that is not in study_halls, and no hall
\* equals NULL.
HallStudentCount(id) ==
    IF id \notin DOMAIN halls THEN 0
    ELSE Cardinality({s \in DOMAIN students : students[s].hall = halls[id].name})

\* DELETE /api/study-halls/:id, the count and the delete run back to back
DeleteStudyHall(id) ==
    /\ IF HallStudentCount(id) > 0
       THEN /\ resp' = Response("deleteStudyHall", 400, "Conflict", 0, << >>)
            /\ UNCHANGED halls
       ELSE IF id \notin DOMAIN halls
       THEN /\ resp' = Response("deleteStudyHall", 404, "NotFound", 0, << >>)
            /\ UNCHANGED halls
       ELSE /\ halls' = DeleteRow(halls, id)
            /\ resp' = Response("deleteStudyHall", 200, "", 1, << >>)
    /\ UNCHANGED <<students, studentSeq, hallSeq>>

\* ----------------------------------------------------------------- reports
\* SUM(x) over the rows with ids in S, where f gives each row's x
RECURSIVE Sum(_, _)
Sum(f, S) ==
    IF S = {} THEN 0
    ELSE LET x == CHOOSE y \in S : TRUE IN f[x] + Sum(f, S \ {x})

FeePaid == [i \in DOMAIN students |-> students[i].fee_paid]
FeeDue == [i \in DOMAIN students |-> students[i].fee_due]
MonthlyFee == [i \in DOMAIN students |-> students[i].monthly_fee]

\* ORDER BY sh.name: the BINARY collation of the names the requests use
NameRank(name) == CASE name = "A" -> 1 [] name = "B" -> 2 [] OTHER -> 3

\* ROUND(n * 1.0 / d, 0) for d # 0: the nearest integer, a half rounds away
\* from zero
RoundHalfAway(n, d) ==
    LET a == IF n < 0 THEN -n ELSE n
        b == IF d < 0 THEN -d ELSE d
        q == (2 * a + b) \div (2 * b)
    IN  IF (n < 0) = (d < 0) THEN q ELSE -q

CollectionRateTruncated(paid, total, count) ==
    IF count = 0 \/ total = 0 THEN 0 ELSE (paid * 1000) \div total

\* CASE WHEN COUNT(s.id) = 0 OR total = 0 THEN 0
\*      ELSE ROUND(paid * 100.0 / total, 1) END, held in tenths of a percent
CollectionRate(paid, total, count) ==
    IF count = 0 \/ total = 0 THEN 0 ELSE RoundHalfAway(paid * 1000, total)

\* row.collectionRate === 0 ? '0%' : `${row.collectionRate}%` for a number of
\* tenths: JavaScript prints 33.3 as '33.3' and 50.0 as '50', so the text is a
\* sign, the whole part, and a point and one digit unless the digit is 0
RateText(tenths) ==
    LET a == IF tenths < 0 THEN -tenths ELSE tenths
    IN  [minus |-> tenths < 0, whole |-> a \div 10,
         point |-> a % 10 # 0, digit |-> a % 10, unit |-> "%"]

\* sh LEFT JOIN students s ON sh.name = s.hall: the students of one hall
StudentsOfHall(h) == {s \in DOMAIN students : students[s].hall = halls[h].name}

\* one group of GROUP BY sh.id, sh.name, formatted by the handler
ReportRow(h) ==
    LET S     == StudentsOfHall(h)
        paid  == Sum(FeePaid, S)
        due   == Sum(FeeDue, S)
        total == Sum([i \in S |-> students[i].fee_paid + students[i].fee_due], S)
    IN  [hall |-> halls[h].name, totalStudents |-> Cardinality(S),
         feesCollected |-> paid, feesPending |-> due, totalFeeAmount |-> total,
         collectionRate |-> RateText(CollectionRate(paid, total, Cardinality(S)))]

\* the groups in the order of ORDER BY sh.name (names are unique)
ReportOrder ==
    CHOOSE o \in [1..Cardinality(DOMAIN halls) -> DOMAIN halls] :
        \A i, j \in DOMAIN o :
            i < j => NameRank(halls[o[i]].name) < NameRank(halls[o[j]].name)

\* GET /api/reports/fee-collection
FeeCollectionReport ==
    /\ resp' = Response("feeCollectionReport", 200, "", 0,
                        [k \in DOMAIN ReportOrder |-> ReportRow(ReportOrder[k])])
    /\ UNCHANGED <<students, studentSeq, halls, hallSeq>>

\* left_date IS NULL OR left_date = '': no handler stores '' (an empty leftDate
\* is written as NULL, an empty left_date as today)
ActiveStudents == {s \in DOMAIN students : students[s].left_date = NullDate}

DashboardRowFeesOfActive ==
    [totalStudents |-> Cardinality(DOMAIN students),
     totalHalls |-> Cardinality(DOMAIN halls),
     activeStudents |-> Cardinality(ActiveStudents),
     leftStudents |-> Cardinality(DOMAIN students \ ActiveStudents),
     monthlyFeeTotal |-> Sum(MonthlyFee, ActiveStudents),
     totalFees |-> Sum(FeePaid, ActiveStudents),
     pendingFees |-> Sum(FeeDue, ActiveStudents),
     totalFeeAmount |-> Sum([i \in DOMAIN students |->
                               students[i].fee_paid + students[i].fee_due],
                            DOMAIN students),
     studentsWithPendingFees |->
         Cardinality({s \in DOMAIN students : students[s].fee_due > 0})]

\* the row of the dashboard query; x || 0 leaves every number as it is
DashboardRow ==
    [totalStudents |-> Cardinality(DOMAIN students),
     totalHalls |-> Cardinality(DOMAIN halls),
     activeStudents |-> Cardinality(ActiveStudents),
     leftStudents |-> Cardinality(DOMAIN students \ ActiveStudents),
     monthlyFeeTotal |-> Sum(MonthlyFee, ActiveStudents),
     totalFees |-> Sum(FeePaid, DOMAIN students),
     pendingFees |-> Sum(FeeDue, DOMAIN students),
     totalFeeAmount |-> Sum([i \in DOMAIN students |->
                               students[i].fee_paid + students[i].fee_due],
                            DOMAIN students),
     studentsWithPendingFees |->
         Cardinality({s \in DOMAIN students : students[s].fee_due > 0})]

\* GET /api/dashboard
Dashboard ==
    /\ resp' = Response("dashboard", 200, "", 0, <<DashboardRow>>)
    /\ UNCHANGED <<students, studentSeq, halls, hallSeq>>

\* --------------------------------------------------------------- in flight
\* POST /api/fees/calculate-monthly up to db.run: the handler reads the clock
\* and queues its UPDATE with that date; other requests are handled before the
\* statement runs
InFlight == Sum(accruing, DOMAIN accruing)

CalculateMonthlyBegin(today) ==
    /\ InFlight < MaxInFlight
    /\ accruing' = [accruing EXCEPT ![today] = @ + 1]
    /\ UNCHANGED <<students, studentSeq, halls, hallSeq, resp, deleting, departed>>

\* the queued UPDATE runs, as one statement, and its callback answers
CalculateMonthlyRun(D) ==
    /\ accruing[D] > 0
    /\ accruing' = [accruing EXCEPT ![D] = @ - 1]
    /\ CalculateMonthly(D)
    /\ UNCHANGED <<deleting, departed>>

\* DELETE /api/study-halls/:id up to the callback of db.get: the count is
\* taken, and with a count of 0 the callback queues the DELETE
DeleteStudyHallCheck(id) ==
    /\ id \notin deleting
    /\ IF HallStudentCount(id) > 0
       THEN /\ resp' = Response("deleteStudyHall", 400, "Conflict", 0, << >>)
            /\ UNCHANGED deleting
       ELSE /\ deleting' = deleting \cup {id}
            /\ UNCHANGED resp
    /\ UNCHANGED <<students, studentSeq, halls, hallSeq, accruing, departed>>

\* the queued DELETE FROM study_halls WHERE id = ? runs and its callback answers
DeleteStudyHallRun(id) ==
    /\ id \in deleting
    /\ deleting' = deleting \ {id}
    /\ IF id \notin DOMAIN halls
       THEN /\ resp' = Response("deleteStudyHall", 404, "NotFound", 0, << >>)
            /\ UNCHANGED halls
       ELSE /\ halls' = DeleteRow(halls, id)
            /\ resp' = Response("deleteStudyHall", 200, "", 1, << >>)
    /\ UNCHANGED <<students, studentSeq, hallSeq, accruing, departed>>

\* The process stops and is started again: the statements still queued are
\* lost, initializeDatabase finds the tables of ./studyhall.db as they are.
Restart ==
    /\ InFlight > 0 \/ deleting # {}
    /\ accruing' = [d \in DOMAIN accruing |-> 0]
    /\ deleting' = {}
    /\ resp' = Response("none", 0, "", 0, << >>)
    /\ UNCHANGED <<students, studentSeq, halls, hallSeq, departed>>

\* ---------------------------------------------------------------- requests
StudentBody(hall, feePaid, feeDue, monthlyFee, joinDate, leftDate) ==
    [name |-> "n", cabin |-> "c", hall |-> hall, phone |-> "p",
     feePaid |-> feePaid, feeDue |-> feeDue, monthlyFee |-> monthlyFee,
     joinDate |-> joinDate, leftDate |-> leftDate]

HallBody(name, capacity) ==
    [name |-> name, capacity |-> capacity, location |-> "l", description |-> ""]

\* The whole server.  Students of two halls, created with a zero balance and
\* a monthly fee; halls of two names; one student body and one hall body
\* lack a required member.
HallNames == {"A", "B"}

SystemBodies ==
    {StudentBody(hall, Num(1), Num(0), Num(2), 20240115, NullDate) : hall \in HallNames}
    \cup {[StudentBody("A", Num(1), Num(0), Num(2), 20240115, NullDate) EXCEPT !.phone = ""]}

HallBodies == {HallBody(name, 10) : name \in HallNames} \cup {HallBody("A", 0)}

Next ==
    \/ (\E body \in SystemBodies : CreateStudent(body, 20240115)) /\ Alone
    \/ (\E id \in StudentIds, body \in SystemBodies : UpdateStudent(id, body)) /\ Alone
    \/ (\E id \in StudentIds : DeleteStudent(id)) /\ Alone
    \/ (CalculateMonthly(20240331)) /\ Alone
    \/ (UpcomingFees) /\ Alone
    \/ (\E id \in StudentIds : MarkLeft(id, 20240215, 20240331)) /\ Alone
    \/ (\E id \in StudentIds : Reactivate(id)) /\ Alone
    \/ (\E body \in HallBodies : CreateStudyHall(body)) /\ Alone
    \/ (\E id \in HallIds, body \in HallBodies : UpdateStudyHall(id, body)) /\ Alone
    \/ (\E id \in HallIds : DeleteStudyHall(id)) /\ Alone

Spec == Init /\ [][Next]_vars

\* The fee ledger: the student handlers and the monthly fee run on every
\* date of Dates; students with and without a monthly fee, departed and
\* active; one body of each kind lacks a required member.
LedgerFees == {Undefined, Num(2)}

LedgerCreateBodies ==
    {StudentBody("A", Num(1), Num(0), fee, 20240115, NullDate) : fee \in LedgerFees}
    \cup {[StudentBody("A", Num(1), Num(0), Num(2), 20240115, NullDate) EXCEPT !.phone = ""]}

LedgerUpdateBodies ==
    {StudentBody("A", Num(1), Num(0), fee, 20240115, left) :
        fee \in LedgerFees, left \in {NullDate, 20240215}}
    \cup {[StudentBody("A", Num(1), Num(0), Num(2), 20240115, NullDate) EXCEPT !.name = ""]}

NextLedger ==
    \/ (\E body \in LedgerCreateBodies : CreateStudent(body, 20240115)) /\ Alone
    \/ (\E id \in StudentIds, body \in LedgerUpdateBodies : UpdateStudent(id, body)) /\ Alone
    \/ (\E id \in StudentIds : DeleteStudent(id)) /\ Alone
    \/ (\E today \in Dates : CalculateMonthly(today)) /\ Alone
    \/ (\E id \in StudentIds, left_date \in {NullDate, 20240215} : MarkLeft(id, left_date, 20240331)) /\ Alone
    \/ (\E id \in StudentIds : Reactivate(id)) /\ Alone

SpecLedger == Init /\ [][NextLedger]_vars

\* The status column: every way a fee_due and a status can be written
\* (member omitted, unreadable, negative, zero, positive) and the fee run.
StatusDues == {Undefined, Text, Num(-2), Num(0), Num(1)}

StatusBodies ==
    {StudentBody("A", Num(1), due, fee, 20240115, NullDate) :
        due \in StatusDues, fee \in LedgerFees}

NextStatus ==
    \/ (\E body \in StatusBodies : CreateStudent(body, 20240115)) /\ Alone
    \/ (\E id \in StudentIds, body \in StatusBodies : UpdateStudent(id, body)) /\ Alone
    \/ (CalculateMonthly(20240331)) /\ Alone
    \/ (\E id \in StudentIds : MarkLeft(id, NullDate, 20240215)) /\ Alone
    \/ (\E id \in StudentIds : Reactivate(id)) /\ Alone

SpecStatus == Init /\ [][NextStatus]_vars

\* The upcoming-fees view: join dates given and defaulted to the day of the
\* request, fee runs a month and more apart, departed and fee-exempt
\* students.
UpcomingBodies ==
    {StudentBody("A", Num(1), Num(0), fee, join, NullDate) :
        fee \in LedgerFees, join \in {NullDate, 20240331}}

NextUpcoming ==
    \/ (\E body \in UpcomingBodies : CreateStudent(body, 20240115)) /\ Alone
    \/ (\E id \in StudentIds, body \in UpcomingBodies : UpdateStudent(id, body)) /\ Alone
    \/ (\E today \in {20240115, 20240331} : CalculateMonthly(today)) /\ Alone
    \/ (UpcomingFees) /\ Alone
    \/ (\E id \in StudentIds : MarkLeft(id, 20240215, 20240331)) /\ Alone
    \/ (\E id \in StudentIds : Reactivate(id)) /\ Alone

SpecUpcoming == Init /\ [][NextUpcoming]_vars

\* The reports over a store whose students differ in hall, fee_paid, fee_due
\* and departure.
ReportBodies ==
    {StudentBody("A", paid, due, Num(3), 20240115, NullDate) :
        paid \in {Undefined, Num(1)}, due \in {Num(0), Num(5)}}
    \cup {StudentBody("B", Num(1), Num(0), Num(3), 20240115, NullDate)}

NextReports ==
    \/ (\E body \in ReportBodies : CreateStudent(body, 20240115)) /\ Alone
    \/ (\E id \in StudentIds : DeleteStudent(id)) /\ Alone
    \/ (\E id \in StudentIds : MarkLeft(id, 20240215, 20240331)) /\ Alone
    \/ (\E body \in HallBodies : CreateStudyHall(body)) /\ Alone
    \/ (\E id \in HallIds, body \in HallBodies : UpdateStudyHall(id, body)) /\ Alone
    \/ (\E id \in HallIds : DeleteStudyHall(id)) /\ Alone
    \/ FeeCollectionReport /\ Alone
    \/ Dashboard /\ Alone

SpecReports == Init /\ [][NextReports]_vars

\* The student handlers with request bodies that lack each required member
\* in turn.
CompleteBodies == {StudentBody(hall, Num(1), Num(0), Num(2), 20240115, NullDate) : hall \in HallNames}

IncompleteBodies ==
    LET b == StudentBody("A", Num(1), Num(0), Num(2), 20240115, NullDate)
    IN  {[b EXCEPT !.name = ""], [b EXCEPT !.cabin = ""],
         [b EXCEPT !.hall = ""], [b EXCEPT !.phone = ""]}

UpdateIncompleteBodies ==
    LET b == StudentBody("A", Num(1), Num(0), Num(2), 20240115, NullDate)
    IN  IncompleteBodies \cup {[b EXCEPT !.feePaid = Undefined], [b EXCEPT !.feeDue = Undefined]}

NextValidation ==
    \/ (\E body \in CompleteBodies \cup IncompleteBodies : CreateStudent(body, 20240115)) /\ Alone
    \/ (\E id \in StudentIds, body \in CompleteBodies \cup UpdateIncompleteBodies : UpdateStudent(id, body)) /\ Alone
    \/ (\E id \in StudentIds : DeleteStudent(id)) /\ Alone
    \/ (\E id \in StudentIds : MarkLeft(id, 20240215, 20240331)) /\ Alone
    \/ (\E body \in HallBodies : CreateStudyHall(body)) /\ Alone

SpecValidation == Init /\ [][NextValidation]_vars

\* The hall handlers, with students that refer to the halls by name.
NextHalls ==
    \/ (\E body \in HallBodies : CreateStudyHall(body)) /\ Alone
    \/ (\E id \in HallIds, body \in HallBodies : UpdateStudyHall(id, body)) /\ Alone
    \/ (\E id \in HallIds : DeleteStudyHall(id)) /\ Alone
    \/ (\E body \in CompleteBodies : CreateStudent(body, 20240115)) /\ Alone
    \/ (\E id \in StudentIds : DeleteStudent(id)) /\ Alone

SpecHalls == Init /\ [][NextHalls]_vars

\* The ledger with the history of departures: departed holds the students
\* for which PUT /api/students/:id/leave has succeeded and
\* PUT /api/students/:id/reactivate has not been called since.
MarkLeftRecorded(id, left_date, today) ==
    /\ MarkLeft(id, left_date, today)
    /\ departed' = IF id \in DOMAIN students THEN departed \cup {id} ELSE departed
    /\ UNCHANGED <<accruing, deleting>>

ReactivateRecorded(id) ==
    /\ Reactivate(id)
    /\ departed' = departed \ {id}
    /\ UNCHANGED <<accruing, deleting>>

DepartureBodies ==
    {StudentBody("A", Num(1), Num(0), Num(2), 20240115, left) : left \in {NullDate, 20240215}}

NextDeparture ==
    \/ (\E body \in DepartureBodies : CreateStudent(body, 20240115)) /\ Alone
    \/ (\E id \in StudentIds, body \in DepartureBodies : UpdateStudent(id, body)) /\ Alone
    \/ (CalculateMonthly(20240331)) /\ Alone
    \/ \E id \in StudentIds, left_date \in {NullDate, 20240215} :
          MarkLeftRecorded(id, left_date, 20240331)
    \/ \E id \in StudentIds : ReactivateRecorded(id)

SpecDeparture == Init /\ [][NextDeparture]_vars

\* Fee runs in flight together, between requests that make students eligible
\* or not.
FeeRunDates == {20240215, 20240331}

NextFeeRuns ==
    \/ (\E body \in CompleteBodies : CreateStudent(body, 20240115)) /\ Alone
    \/ (\E id \in StudentIds : MarkLeft(id, 20240215, 20240331)) /\ Alone
    \/ (\E id \in StudentIds : Reactivate(id)) /\ Alone
    \/ \E today \in FeeRunDates : CalculateMonthlyBegin(today)
    \/ \E D \in FeeRunDates : CalculateMonthlyRun(D)
    \/ Restart

SpecFeeRuns == Init /\ [][NextFeeRuns]_vars

\* Hall deletions in flight, between requests that assign students to halls.
NextHallRace ==
    \/ (\E body \in HallBodies : CreateStudyHall(body)) /\ Alone
    \/ (\E body \in CompleteBodies : CreateStudent(body, 20240115)) /\ Alone
    \/ (\E id \in StudentIds, body \in CompleteBodies : UpdateStudent(id, body)) /\ Alone
    \/ \E id \in HallIds : DeleteStudyHallCheck(id)
    \/ \E id \in HallIds : DeleteStudyHallRun(id)

SpecHallRace == Init /\ [][NextHallRace]_vars

\* Halls renamed under their students, with the fee run and the two reports.
NextOrphans ==
    \/ (\E body \in CompleteBodies : CreateStudent(body, 20240115)) /\ Alone
    \/ (\E body \in HallBodies : CreateStudyHall(body)) /\ Alone
    \/ (\E id \in HallIds, body \in HallBodies : UpdateStudyHall(id, body)) /\ Alone
    \/ (CalculateMonthly(20240331)) /\ Alone
    \/ FeeCollectionReport /\ Alone
    \/ Dashboard /\ Alone

SpecOrphans == Init /\ [][NextOrphans]_vars

\* Fee runs at the start and at the end of a month that follows a shorter
\* one: date('2024-03-31', '-1 month') is 31 February, which SQLite reads as
\* 2 March.
MonthEndDates == {20240301, 20240331}

NextMonthEnd ==
    \/ (\E body \in DepartureBodies : CreateStudent(body, 20240115)) /\ Alone
    \/ (\E id \in StudentIds, body \in DepartureBodies : UpdateStudent(id, body)) /\ Alone
    \/ (\E today \in MonthEndDates : CalculateMonthly(today)) /\ Alone
    \/ (\E id \in StudentIds : MarkLeft(id, 20240215, 20240331)) /\ Alone
    \/ (\E id \in StudentIds : Reactivate(id)) /\ Alone

SpecMonthEnd == Init /\ [][NextMonthEnd]_vars

\* ------------------------------------------------------------------ claims
\* The records a fee run changed
Changed == {i \in DOMAIN students : students'[i] # students[i]}

\* The selection predicate of the accrual contract
Selected(row, D) ==
    /\ row.left_date = NullDate
    /\ row.monthly_fee > 0
    /\ \/ row.last_fee_calculated_date = NullDate
       \/ row.last_fee_calculated_date < MinusOneMonth(D)

\* C1: a fee run with reference date D changes every selected record and
\* reports their number, and a second run with the same D right after it
\* changes no record, reports zero and leaves the store as the first left it.
AccrualIdempotent ==
    [][\A D \in Dates : CalculateMonthly(D) =>
          /\ Changed = {i \in DOMAIN students : Selected(students[i], D)}
          /\ resp'.affected = Cardinality(Changed)
          /\ AccrualChanges(students', D) = 0
          /\ AccrualRows(students', D) = students']_vars

\* C1 witness: a run that found nothing to charge although an active
\* student with a monthly fee, stamped by an earlier run, is in the store.
AccrualIdempotentWitness ==
    /\ resp.op = "calculateMonthly" /\ resp.affected = 0
    /\ \E i \in DOMAIN students :
          /\ students[i].left_date = NullDate /\ students[i].monthly_fee > 0
          /\ students[i].last_fee_calculated_date = 20240331

\* C2: every record a fee run changes has its fee_due raised by exactly one
\* monthly_fee, whatever time passed since its last stamp, and is stamped D.
AccrualEffect ==
    [][\A D \in Dates : CalculateMonthly(D) =>
          \A i \in Changed :
             /\ students'[i].fee_due = students[i].fee_due + students[i].monthly_fee
             /\ students'[i].last_fee_calculated_date = D]_vars

\* C2 witness: a student charged in January and again at the end of March,
\* two monthly fees in all.
AccrualEffectWitness ==
    /\ resp.op = "calculateMonthly" /\ resp.affected > 0
    /\ \E i \in DOMAIN students :
          /\ students[i].last_fee_calculated_date = 20240331
          /\ students[i].fee_due = 2 * students[i].monthly_fee
          /\ students[i].monthly_fee > 0

\* C3: a fee run leaves every student whose left_date is set as it was.
DepartedUntouched ==
    [][\A D \in Dates : CalculateMonthly(D) =>
          \A i \in DOMAIN students :
             students[i].left_date # NullDate => students'[i] = students[i]]_vars

\* C3 witness: a run charged a student while a departed student with a
\* monthly fee and no stamp stayed uncharged.
DepartedUntouchedWitness ==
    /\ resp.op = "calculateMonthly" /\ resp.affected = 1
    /\ \E i \in DOMAIN students :
          /\ students[i].left_date # NullDate /\ students[i].monthly_fee > 0
          /\ students[i].last_fee_calculated_date = NullDate

\* C4: a fee run changes exactly the selected students and returns their
\* number; it inserts and deletes no student and changes no column other
\* than fee_due, last_fee_calculated_date and status; study halls stay.
AccrualFrame ==
    [][\A D \in Dates : CalculateMonthly(D) =>
          /\ DOMAIN students' = DOMAIN students
          /\ Changed = {i \in DOMAIN students : Selected(students[i], D)}
          /\ resp'.affected = Cardinality({i \in DOMAIN students : Selected(students[i], D)})
          /\ \A i \in DOMAIN students :
                students'[i] = [students[i] EXCEPT
                                  !.fee_due = students'[i].fee_due,
                                  !.last_fee_calculated_date = students'[i].last_fee_calculated_date,
                                  !.status = students'[i].status]
          /\ halls' = halls /\ studentSeq' = studentSeq]_vars

\* C4 witness: a run on 15 February charged one student and passed over
\* the other, who was stamped exactly one month earlier.
AccrualFrameWitness ==
    /\ resp.op = "calculateMonthly" /\ resp.affected = 1
    /\ \E i \in DOMAIN students : \E j \in DOMAIN students :
          /\ students[i].last_fee_calculated_date = 20240215
          /\ students[j].last_fee_calculated_date = 20240115
          /\ students[j].left_date = NullDate /\ students[j].monthly_fee > 0

\* deriveStatus of the status rule: Paid at a zero balance, Pending otherwise
DeriveStatus(feeDue) == IF feeDue = 0 THEN "Paid" ELSE "Pending"

\* C5 (as stated): every stored status is Paid exactly when the stored
\* fee_due is 0, and Pending otherwise.
StatusIffZeroDue ==
    \A i \in DOMAIN students : students[i].status = DeriveStatus(students[i].fee_due)

\* C5 (amended): a stored status is Paid only when the stored fee_due is 0,
\* and every nonzero fee_due is stored with Pending.
PaidOnlyAtZeroDue ==
    \A i \in DOMAIN students :
       /\ students[i].status \in {"Paid", "Pending"}
       /\ students[i].status = "Paid" => students[i].fee_due = 0

\* C5 witness: a fee run brought a negative balance to 0 and the status
\* stayed Pending, next to a student stored Paid at a zero balance.
PaidOnlyAtZeroDueWitness ==
    /\ resp.op = "calculateMonthly" /\ resp.affected > 0
    /\ \E i \in DOMAIN students :
          /\ students[i].fee_due = 0 /\ students[i].status = "Pending"
          /\ students[i].last_fee_calculated_date # NullDate
    /\ \E j \in DOMAIN students :
          students[j].fee_due = 0 /\ students[j].status = "Paid"

\* C6: the status written by an accepted createStudent or updateStudent is
\* deriveStatus of the fee_due stored by the same write.
StatusDerivedOnWrite ==
    [][\A body \in StatusBodies :
          /\ \A today \in Dates :
                CreateStudent(body, today) /\ resp'.status = 200 =>
                   students'[studentSeq'].status = DeriveStatus(students'[studentSeq'].fee_due)
          /\ \A id \in StudentIds :
                UpdateStudent(id, body) /\ resp'.status = 200 =>
                   students'[id].status = DeriveStatus(students'[id].fee_due)]_vars

\* C7: deleting a hall whose name is the hall of some student, departed or
\* active, fails with Conflict and changes nothing; with no such student
\* it removes the hall and nothing else; an unknown id fails with NotFound.
HallDeletionGuard ==
    [][\A id \in HallIds : DeleteStudyHall(id) =>
          /\ students' = students
          /\ IF id \notin DOMAIN halls
             THEN resp'.status = 404 /\ resp'.error = "NotFound" /\ halls' = halls
             ELSE IF \E s \in DOMAIN students : students[s].hall = halls[id].name
             THEN resp'.status = 400 /\ resp'.error = "Conflict" /\ halls' = halls
             ELSE /\ resp'.status = 200
                  /\ DOMAIN halls' = DOMAIN halls \ {id}
                  /\ \A h \in DOMAIN halls' : halls'[h] = halls[h]]_vars

\* C7 witness: a deletion refused although every student of the store has
\* departed.
HallDeletionGuardWitness ==
    /\ resp.op = "deleteStudyHall" /\ resp.error = "Conflict"
    /\ DOMAIN students # {}
    /\ \A s \in DOMAIN students : students[s].left_date # NullDate

\* C8: markLeft on a stored student sets left_date to the date given, or to
\* the day of the request when none is given, and changes nothing else; on
\* an unknown id it fails with NotFound and changes nothing.
MarkLeftContract ==
    [][\A id \in StudentIds : \A d \in Dates \cup {NullDate} : \A today \in Dates :
          MarkLeft(id, d, today) =>
             /\ halls' = halls /\ studentSeq' = studentSeq
             /\ IF id \in DOMAIN students
                THEN /\ resp'.status = 200
                     /\ students' = [students EXCEPT ![id].left_date =
                                        IF d = NullDate THEN today ELSE d]
                ELSE /\ resp'.status = 404 /\ resp'.error = "NotFound"
                     /\ students' = students]_vars

\* C8 witness: a student with a balance and a fee stamp marked as left on
\* the day of the request, next to one marked as left on a given date.
MarkLeftContractWitness ==
    /\ resp.op = "markLeft" /\ resp.status = 200
    /\ \E i \in DOMAIN students : \E j \in DOMAIN students :
          /\ students[i].left_date = 20240331
          /\ students[i].fee_due > 0
          /\ students[i].last_fee_calculated_date # NullDate
          /\ students[j].left_date = 20240215

\* C9: reactivate on a stored student clears left_date and changes nothing
\* else, on an unknown id it fails with NotFound and changes nothing; and
\* no fee run adds more than one monthly_fee to a student's fee_due.
ReactivateNoBackBilling ==
    [][/\ \A id \in StudentIds : Reactivate(id) =>
             /\ halls' = halls /\ studentSeq' = studentSeq
             /\ IF id \in DOMAIN students
                THEN /\ resp'.status = 200
                     /\ students' = [students EXCEPT ![id].left_date = NullDate]
                ELSE /\ resp'.status = 404 /\ resp'.error = "NotFound"
                     /\ students' = students
       /\ \A D \in Dates : CalculateMonthly(D) =>
             \A i \in DOMAIN students :
                students'[i].fee_due \in
                   {students[i].fee_due, students[i].fee_due + students[i].monthly_fee}]_vars

\* C9 witness: a student stamped on 15 January has been reactivated and is
\* charged one fee by the run of 31 March.
ReactivateNoBackBillingWitness ==
    /\ resp.op = "reactivate" /\ resp.status = 200
    /\ \E i \in DOMAIN students :
          /\ students[i].left_date = NullDate /\ students[i].monthly_fee > 0
          /\ students[i].last_fee_calculated_date = 20240115
          /\ AccrualRows(students, 20240331)[i].fee_due
                = students[i].fee_due + students[i].monthly_fee

\* C10: the upcoming-fees view returns each active student with a monthly
\* fee once and no other, with next_fee_date the join date of a student
\* never charged and one month after the stamp otherwise, in ascending
\* order of next_fee_date; the store is unchanged.
UpcomingFeesView ==
    [][UpcomingFees =>
          /\ students' = students /\ halls' = halls
          /\ studentSeq' = studentSeq /\ hallSeq' = hallSeq
          /\ resp'.status = 200
          /\ LET q == resp'.rows
                 active == {i \in DOMAIN students :
                              students[i].left_date = NullDate /\ students[i].monthly_fee > 0}
             IN /\ {q[k].id : k \in DOMAIN q} = active
                /\ Len(q) = Cardinality(active)
                /\ \A k \in DOMAIN q :
                      /\ q[k].row = students[q[k].id]
                      /\ q[k].next_fee_date =
                            IF q[k].row.last_fee_calculated_date = NullDate
                            THEN q[k].row.join_date
                            ELSE PlusOneMonth(q[k].row.last_fee_calculated_date)
                /\ \A k \in DOMAIN q : \A l \in DOMAIN q :
                      k < l => q[k].next_fee_date <= q[l].next_fee_date]_vars

\* C10 witness: the view lists a student stamped on 15 January (next fee
\* on 15 February) before a student never charged who joined on 31 March.
UpcomingFeesViewWitness ==
    /\ resp.op = "upcomingFees" /\ Len(resp.rows) = 2
    /\ resp.rows[1].row.last_fee_calculated_date = 20240115
    /\ resp.rows[1].next_fee_date = 20240215
    /\ resp.rows[2].row.last_fee_calculated_date = NullDate
    /\ resp.rows[2].next_fee_date = 20240331

\* C11: the fee-collection report has exactly one row per study hall, in the
\* order of the hall names, also for a hall without students; a row's
\* totalStudents, feesCollected, feesPending and totalFeeAmount are the count
\* and the sums of fee_paid, fee_due and fee_paid + fee_due over the students
\* whose hall is the row's hall name; collectionRate is "0%" when the hall has
\* no students or totalFeeAmount is 0, and otherwise the text of
\* feesCollected * 100 / totalFeeAmount rounded to one decimal.
RateTenths(text) ==
    (IF text.minus THEN -1 ELSE 1) * (text.whole * 10 + text.digit)

RowIsOfHall(row, h) ==
    LET S == {s \in DOMAIN students : students[s].hall = halls[h].name}
        t == RateTenths(row.collectionRate)
    IN  /\ row.hall = halls[h].name
        /\ row.totalStudents = Cardinality(S)
        /\ row.feesCollected = Sum(FeePaid, S)
        /\ row.feesPending = Sum(FeeDue, S)
        /\ row.totalFeeAmount = row.feesCollected + row.feesPending
        /\ row.collectionRate.unit = "%"
        /\ row.collectionRate.point = (row.collectionRate.digit # 0)
        /\ row.collectionRate.digit \in 0..9
        /\ IF S = {} \/ row.totalFeeAmount = 0
           THEN row.collectionRate = RateText(0)
           ELSE \* t / 10 is the multiple of 0.1 nearest to paid * 100 / total
                /\ 2 * t * row.totalFeeAmount - 2000 * row.feesCollected
                      <= row.totalFeeAmount
                /\ 2000 * row.feesCollected - 2 * t * row.totalFeeAmount
                      <= row.totalFeeAmount

FeeCollectionReportView ==
    resp.op = "feeCollectionReport" =>
        /\ Len(resp.rows) = Cardinality(DOMAIN halls)
        /\ \A h \in DOMAIN halls :
              \E k \in DOMAIN resp.rows :
                 /\ RowIsOfHall(resp.rows[k], h)
                 /\ \A j \in DOMAIN resp.rows : resp.rows[j].hall = halls[h].name => j = k
        /\ \A j, k \in DOMAIN resp.rows :
              j < k => NameRank(resp.rows[j].hall) < NameRank(resp.rows[k].hall)

FeeCollectionReportViewWitness ==
    /\ resp.op = "feeCollectionReport"
    /\ Len(resp.rows) = 2
    /\ resp.rows[1].feesCollected = 1
    /\ resp.rows[1].totalFeeAmount = 6
    /\ resp.rows[1].collectionRate = RateText(167)
    /\ resp.rows[2].totalStudents = 0
    /\ resp.rows[2].collectionRate = RateText(0)

\* C12: the dashboard summary gives, for the store as it is (all of them 0 for
\* the empty store), the number of students, of halls, of students with no
\* left_date and of students with one, the sum of monthly_fee over the students
\* with no left_date, the sums of fee_paid, of fee_due and of fee_paid + fee_due
\* over all students, and the number of students with fee_due > 0; so
\* active + departed = totalStudents and totalFeeAmount = totalFees +
\* pendingFees.
DashboardView ==
    resp.op = "dashboard" =>
        LET d      == resp.rows[1]
            all    == DOMAIN students
            gone   == {s \in all : students[s].left_date # NullDate}
            fee(s) == students[s].monthly_fee
        IN  /\ d.totalStudents = Cardinality(all)
            /\ d.totalHalls = Cardinality(DOMAIN halls)
            /\ d.leftStudents = Cardinality(gone)
            /\ d.activeStudents + d.leftStudents = d.totalStudents
            /\ d.monthlyFeeTotal = Sum([s \in all |-> IF s \in gone THEN 0 ELSE fee(s)], all)
            /\ d.totalFees = Sum(FeePaid, all)
            /\ d.pendingFees = Sum(FeeDue, all)
            /\ d.totalFeeAmount = d.totalFees + d.pendingFees
            /\ d.studentsWithPendingFees = Cardinality({s \in all : FeeDue[s] > 0})
            /\ all = {} => d = [totalStudents |-> 0, totalHalls |-> d.totalHalls,
                                activeStudents |-> 0, leftStudents |-> 0,
                                monthlyFeeTotal |-> 0, totalFees |-> 0,
                                pendingFees |-> 0, totalFeeAmount |-> 0,
                                studentsWithPendingFees |-> 0]

DashboardViewWitness ==
    /\ resp.op = "dashboard"
    /\ resp.rows[1].activeStudents = 1
    /\ resp.rows[1].leftStudents = 1
    /\ resp.rows[1].monthlyFeeTotal = 3
    /\ resp.rows[1].totalFees = 1
    /\ resp.rows[1].pendingFees = 10
    /\ resp.rows[1].totalFeeAmount = 11
    /\ resp.rows[1].totalHalls = 1

\* C13: createStudent without a name, cabin, hall or phone fails with a
\* validation error; updateStudent without one of them fails with a validation
\* error and, with every member given but an id that is not stored, fails with
\* not found; deleteStudent of an id that is not stored fails with not found;
\* and no failing student request creates, changes or deletes a student or a
\* hall.
LacksRequired(body) ==
    body.name = "" \/ body.cabin = "" \/ body.hall = "" \/ body.phone = ""

Fails(op, error) == resp'.op = op /\ resp'.status # 200 /\ resp'.error = error

StudentErrorsChangeNothing ==
    [][/\ \A body \in CompleteBodies \cup IncompleteBodies :
            CreateStudent(body, 20240115) /\ LacksRequired(body)
               => Fails("createStudent", "ValidationError")
       /\ \A id \in StudentIds, body \in CompleteBodies \cup UpdateIncompleteBodies :
            UpdateStudent(id, body) =>
               /\ LacksRequired(body) => Fails("updateStudent", "ValidationError")
               /\ body \in CompleteBodies /\ id \notin DOMAIN students
                     => Fails("updateStudent", "NotFound")
       /\ \A id \in StudentIds :
            DeleteStudent(id) /\ id \notin DOMAIN students
               => Fails("deleteStudent", "NotFound")
       /\ resp'.op \in {"createStudent", "updateStudent", "deleteStudent"}
             /\ resp'.status # 200
             => UNCHANGED <<students, studentSeq, halls, hallSeq>>]_vars

StudentErrorsChangeNothingWitness ==
    /\ resp.op = "updateStudent"
    /\ resp.error = "NotFound"
    /\ DOMAIN students = {2}
    /\ DOMAIN halls # {}

\* C14: no two study halls ever have the same name; createStudyHall with a
\* name that a hall has, and updateStudyHall of a hall with a name that another
\* hall has, fail with a duplicate-name error and leave every hall as it was.
UsedByAnother(name, id) ==
    \E h \in DOMAIN halls : h # id /\ halls[h].name = name

HallLacksRequired(body) ==
    body.name = "" \/ body.capacity = 0 \/ body.location = ""

HallNamesUnique ==
    [][/\ \A g, h \in DOMAIN halls' : halls'[g].name = halls'[h].name => g = h
       /\ \A body \in HallBodies :
            CreateStudyHall(body) /\ ~HallLacksRequired(body) /\ UsedByAnother(body.name, 0)
               => Fails("createStudyHall", "DuplicateName") /\ halls' = halls
       /\ \A id \in HallIds, body \in HallBodies :
            /\ UpdateStudyHall(id, body)
            /\ ~HallLacksRequired(body) /\ id \in DOMAIN halls
            /\ UsedByAnother(body.name, id)
            => Fails("updateStudyHall", "DuplicateName") /\ halls' = halls]_vars

HallNamesUniqueWitness ==
    /\ resp.op = "updateStudyHall"
    /\ resp.error = "DuplicateName"
    /\ Cardinality(DOMAIN halls) = 2

\* C15 as stated: once markLeft has succeeded for a student, no fee run changes
\* the student's fee_due or last_fee_calculated_date until reactivate is called
\* for the student, whatever other requests (updateStudent of that student
\* among them) are handled in between.
DepartureStickyUntilReactivate ==
    [][CalculateMonthly(20240331) =>
          \A i \in departed \cap DOMAIN students :
             /\ students'[i].fee_due = students[i].fee_due
             /\ students'[i].last_fee_calculated_date =
                   students[i].last_fee_calculated_date]_vars

\* C15: a successful markLeft leaves the student with a left_date; the
\* left_date of a student marked as left is cleared only by reactivate and by
\* an updateStudent of that student whose body has no leftDate; and a fee run
\* changes a student marked as left only if the left_date has been cleared.
ClearsDeparture(i) ==
    /\ students[i].left_date # NullDate
    /\ i \in DOMAIN students'
    /\ students'[i].left_date = NullDate

DepartureStickyWhileLeftDateSet ==
    [][/\ \A id \in StudentIds, left_date \in {NullDate, 20240215} :
            MarkLeft(id, left_date, 20240331) /\ resp'.status = 200
               => students'[id].left_date # NullDate
       /\ \A i \in departed \cap DOMAIN students :
            ClearsDeparture(i) =>
               \/ Reactivate(i)
               \/ \E body \in DepartureBodies :
                     body.leftDate = NullDate /\ UpdateStudent(i, body)
       /\ CalculateMonthly(20240331) =>
            \A i \in departed \cap DOMAIN students :
               students'[i] # students[i] => students[i].left_date = NullDate]_vars

DepartureStickyWhileLeftDateSetWitness ==
    /\ resp.op = "calculateMonthly"
    /\ resp.affected = 1
    /\ departed = {1, 2}
    /\ students[1].left_date = NullDate
    /\ students[1].last_fee_calculated_date = 20240331
    /\ students[2].left_date # NullDate
    /\ students[2].last_fee_calculated_date = NullDate

\* C16: a fee run with date D charges every active student with a monthly fee
\* whose last_fee_calculated_date is at least one calendar month before D, the
\* student stamped exactly one month before D (D is the next fee date of the
\* upcoming-fees view) among them; so runs on the same day of successive
\* months charge the student each time.
ChargedAtOneMonth ==
    [][\A D \in Dates : CalculateMonthly(D) =>
          \A i \in DOMAIN students :
             /\ students[i].left_date = NullDate
             /\ students[i].monthly_fee > 0
             /\ students[i].last_fee_calculated_date # NullDate
             /\ NextFeeDate(students[i]) <= D
             => /\ students'[i].last_fee_calculated_date = D
                /\ students'[i].fee_due = students[i].fee_due + students[i].monthly_fee]_vars

\* C17: the UPDATE of a fee run with date D charges every selected student
\* once, stamps it D and leaves the others alone, and after it no student is
\* selected for D, so a second run with D, queued before or after the first,
\* charges nobody twice; a run that the process loses changes nothing; and
\* from any table in which only a part of the selected students has been
\* charged and stamped D, a run with D reaches the table of the uninterrupted
\* run.
PartlyCharged(X, D) ==
    [i \in DOMAIN students |->
        IF i \in X
        THEN [students[i] EXCEPT !.fee_due = @ + students[i].monthly_fee,
                                 !.last_fee_calculated_date = D,
                                 !.status = IF students[i].fee_due + students[i].monthly_fee > 0
                                            THEN "Pending" ELSE @]
        ELSE students[i]]

RerunSafe ==
    [][/\ \A D \in FeeRunDates : CalculateMonthlyRun(D) =>
            LET sel == {i \in DOMAIN students : Selected(students[i], D)}
            IN  /\ \A i \in sel :
                      /\ students'[i].fee_due = students[i].fee_due + students[i].monthly_fee
                      /\ students'[i].last_fee_calculated_date = D
                /\ \A i \in DOMAIN students \ sel : students'[i] = students[i]
                /\ \A i \in DOMAIN students' : ~Selected(students'[i], D)
                /\ \A X \in SUBSET sel :
                      /\ AccrualRows(PartlyCharged(X, D), D) = students'
                      /\ AccrualChanges(PartlyCharged(X, D), D) = Cardinality(sel \ X)
       /\ Restart => UNCHANGED <<students, halls>>]_vars

RerunSafeWitness ==
    /\ resp.op = "calculateMonthly"
    /\ resp.affected = 0
    /\ accruing[20240331] = 1
    /\ \E i \in DOMAIN students :
          /\ students[i].last_fee_calculated_date = 20240331
          /\ students[i].fee_due = students[i].monthly_fee
    /\ \E i \in DOMAIN students :
          /\ students[i].last_fee_calculated_date = 20240215
          /\ students[i].left_date = NullDate

\* C18: with other requests handled between the count and the DELETE of
\* deleteStudyHall, the DELETE still removes no hall whose name is the hall of
\* a student at the moment of the removal.
NoReferencedHallRemoved ==
    [][\A id \in HallIds :
          DeleteStudyHallRun(id) /\ id \in DOMAIN halls /\ id \notin DOMAIN halls'
             => \A s \in DOMAIN students : students[s].hall # halls[id].name]_vars

\* C19: for every student a fee run charges, the status becomes Pending when
\* the new fee_due (the old fee_due plus the monthly fee) is positive, and
\* stays what it was otherwise; no run makes a status Paid, and a student
\* whose negative fee_due the run brings to exactly 0 is Pending after it.
AccrualStatusRule ==
    [][CalculateMonthly(20240331) =>
          \A i \in DOMAIN students :
             Selected(students[i], 20240331) =>
                LET new == students[i].fee_due + students[i].monthly_fee
                IN  /\ students'[i].fee_due = new
                    /\ students'[i].status =
                          IF new > 0 THEN "Pending" ELSE students[i].status
                    /\ students'[i].status = "Paid" => students[i].status = "Paid"
                    /\ students[i].fee_due < 0 /\ new = 0
                          => students'[i].status = "Pending"]_vars

AccrualStatusRuleWitness ==
    /\ resp.op = "calculateMonthly"
    /\ resp.affected = 2
    /\ students[1].fee_due = 0
    /\ students[1].status = "Pending"
    /\ students[1].last_fee_calculated_date = 20240331
    /\ students[2].fee_due = 2
    /\ students[2].status = "Pending"
    /\ students[2].last_fee_calculated_date = 20240331

\* C20: a fee run with date D charges a student that has never been charged
\* only if D is on or after the student's join_date, the next fee date that the
\* upcoming-fees view reports for it; a student whose join_date is later than
\* D is not charged.
FirstCycleFromJoinDate ==
    [][\A D \in {20240115, 20240331} : CalculateMonthly(D) =>
          \A i \in DOMAIN students :
             /\ students[i].last_fee_calculated_date = NullDate
             /\ students'[i] # students[i]
             => NextFeeDate(students[i]) <= D]_vars

\* C21: the upcoming-fees view gives a student that has never been charged
\* its join date J as next fee date, and once a fee run has charged the
\* student for the first time it gives J plus one calendar month.
NextFeeDateFromJoinDate ==
    [][\A D \in {20240115, 20240331} : CalculateMonthly(D) =>
          \A i \in DOMAIN students :
             /\ students[i].last_fee_calculated_date = NullDate
             /\ students[i].join_date # NullDate
             /\ students'[i] # students[i]
             => /\ NextFeeDate(students[i]) = students[i].join_date
                /\ NextFeeDate(students'[i]) = PlusOneMonth(students[i].join_date)]_vars

\* C22: updateStudyHall leaves the students of the hall it renames as they
\* are; a student whose hall is the name of no study hall is still counted by
\* the dashboard and still charged by the fee run, and is counted in no row of
\* the fee-collection report; every student is counted in at most one row of
\* the report, and the totalStudents of its rows add up to the number of
\* students whose hall is the name of a study hall.
Orphans == {s \in DOMAIN students : \A h \in DOMAIN halls : halls[h].name # students[s].hall}

RowsCounting(s) == {k \in DOMAIN resp'.rows : resp'.rows[k].hall = students[s].hall}

OrphansUnreported ==
    [][/\ \A id \in HallIds, body \in HallBodies :
            UpdateStudyHall(id, body) => students' = students
       /\ Dashboard =>
            /\ resp'.rows[1].totalStudents = Cardinality(DOMAIN students)
            /\ resp'.rows[1].totalFees = Sum(FeePaid, DOMAIN students)
            /\ resp'.rows[1].pendingFees = Sum(FeeDue, DOMAIN students)
       /\ CalculateMonthly(20240331) =>
            \A s \in Orphans :
               Selected(students[s], 20240331) =>
                  /\ students'[s].fee_due = students[s].fee_due + students[s].monthly_fee
                  /\ students'[s].last_fee_calculated_date = 20240331
       /\ FeeCollectionReport =>
            /\ \A s \in Orphans : RowsCounting(s) = {}
            /\ \A s \in DOMAIN students : Cardinality(RowsCounting(s)) <= 1
            /\ \A k \in DOMAIN resp'.rows :
                  resp'.rows[k].totalStudents =
                     Cardinality({s \in DOMAIN students : k \in RowsCounting(s)})
            /\ Sum([k \in DOMAIN resp'.rows |-> resp'.rows[k].totalStudents],
                   DOMAIN resp'.rows)
                  = Cardinality(DOMAIN students \ Orphans)]_vars

OrphansUnreportedWitness ==
    /\ resp.op = "feeCollectionReport"
    /\ Len(resp.rows) = 1
    /\ resp.rows[1].hall = "B"
    /\ resp.rows[1].totalStudents = 1
    /\ students[1].hall = "A"
    /\ students[1].last_fee_calculated_date = 20240331
    /\ students[2].hall = "B"

\* C23: whatever the dates of the fee runs and whatever updateStudent,
\* markLeft and reactivate do in between, a fee run that charges a student
\* charged before has a date more than one calendar month after the date of
\* the earlier charge, and no request moves a student's
\* last_fee_calculated_date backwards.
OneChargePerMonth ==
    [][/\ \A D \in MonthEndDates : CalculateMonthly(D) =>
            \A i \in DOMAIN students :
               /\ students[i].last_fee_calculated_date # NullDate
               /\ students'[i] # students[i]
               => PlusOneMonth(students[i].last_fee_calculated_date) < D
       /\ \A i \in DOMAIN students \cap DOMAIN students' :
            students'[i].last_fee_calculated_date >=
               students[i].last_fee_calculated_date]_vars

====
